---- MODULE Spec2Model ----
(***************************************************************************)
(* Pool-monitoring and swap-execution engine of uniswap-monitor-bot.       *)
(*                                                                         *)
(* PoolMonitorService owns a round-robin cursor over three pools, an       *)
(* interval timer and a tick-in-flight flag; one SwapService per pool owns *)
(* a swap-in-flight flag and runs the mint / approve / swap / unwrap       *)
(* protocol.  Every `await` of the source is a point where another         *)
(* macrotask (a timer fire, startMonitoring, stopMonitoring, another       *)
(* tick's continuation) may run, so every action below is the code that    *)
(* runs between two awaits.  Values read from the chain are chosen from    *)
(* small sets: the chain is outside the program.                           *)
(***************************************************************************)
EXTENDS Integers, Sequences, FiniteSets, Bags, TLC

VARIABLES
    isProcessing,      \* PoolMonitorService.isProcessing
    interval,          \* PoolMonitorService.interval # null
    timers,            \* number of armed setInterval timers of the process
    currentPoolIndex,  \* PoolMonitorService.currentPoolIndex (0-based)
    swapProcessing,    \* SwapService.isProcessing, one per pool
    ticks,             \* bag of the processNextPool() invocations suspended at an await
    tickCount,         \* history: number of ticks started, modulo the pool count
    selected,          \* history: index of the pool the tick started last selected
    last,              \* history: the tick that ended in the last step, if one did
    chain,             \* the signer's account on the chain, where the model follows it
    calc               \* inputs and results of the functions that are checked on their own

vars == <<isProcessing, interval, timers, currentPoolIndex, swapProcessing, ticks, tickCount,
          selected, last, chain, calc>>

----------------------------------------------------------------------------
\* Bounds of the model.

\* processNextPool() invocations that may be suspended at the same time
MaxTicks == 2
\* decimal places of one ether in wei, scaled down from 18
WeiDecimals == 2
\* significant decimal digits a JavaScript number keeps, scaled down from 15 to 17 with
\* the wei: an amount of more than one ether has more digits than a number keeps
FloatDigits == 2
\* largest quote-asset balance a read of the monitor returns, in half ethers
MaxBalance == 3
\* largest base-token amount (reserve, signer balance, allowance) a read returns
MaxToken == 1
\* mint transactions one executeSwap() may submit before the model stops it
MaxMints == 2
\* transactions of the signer the followed chain confirms before the model stops it
MaxNonce == 5
\* decimal places of one gwei in wei, scaled down from 9
GweiDecimals == 1
\* largest fee the network suggests, in gwei
MaxFeeGwei == 2
\* largest base-token reserve of a pool where the sizing is checked on its own
MaxReserve == 12
\* largest wrapped-native balance the signer holds after a swap
MaxWeth == 2
\* largest native balance of the signer a read around the unwrap returns
MaxEth == 1

----------------------------------------------------------------------------
\* Configuration (Config.pools[..]) and the constants of the monitor.

processOrder == <<"usdc_weth", "usdt_weth", "dai_weth">>

PoolCount == Len(processOrder)

PoolTypes == {processOrder[i] : i \in 1..PoolCount}

RECURSIVE Pow10(_)
Pow10(n) == IF n = 0 THEN 1 ELSE 10 * Pow10(n - 1)

\* wei per ether: formatEther and parseEther shift by 18 decimal places
WeiPerEther == Pow10(WeiDecimals)

\* the balances a read of the monitor returns, in wei: multiples of half an ether
PoolBalances == {k * (WeiPerEther \div 2) : k \in 0..MaxBalance}

\* poolConfig.threshold, in ether
ThresholdEther == 1

\* poolConfig.threshold as a number comparable with parseFloat's result
threshold(p) == ThresholdEther * WeiPerEther

\* poolConfig.withdrawal_percentage
withdrawal_percentage == 90

\* config.swap.max_fee and config.swap.priority_fee: decimal strings in gwei, written
\* as <<integer part, tenths>>: "1.5" and "1"
max_fee == <<1, 5>>

priority_fee == <<1, 0>>

\* this.processOrder[i] for a 0-based index i
PoolAt(i) == processOrder[i + 1]

----------------------------------------------------------------------------
\* Conversions.  A decimal string is the pair <<integer part, fraction in wei>>.  A
\* JavaScript number is a floating-point value: it keeps FloatDigits significant digits
\* and is written here as a count of wei (or of hundredths of a wei, where said).

formatEther(wei) == <<wei \div WeiPerEther, wei % WeiPerEther>>

RECURSIVE DigitsOf(_)
\* number of decimal digits of n > 0
DigitsOf(n) == IF n < 10 THEN 1 ELSE 1 + DigitsOf(n \div 10)

\* n / q rounded to the nearest integer, ties to even
RoundHalfEven(n, q) ==
    LET d == n \div q
        rem == n % q
    IN  IF 2 * rem > q \/ (2 * rem = q /\ d % 2 = 1) THEN d + 1 ELSE d

\* the floating-point value nearest to n: n rounded to FloatDigits significant digits
RoundSig(n) ==
    IF n = 0 \/ DigitsOf(n) <= FloatDigits
    THEN n
    ELSE LET q == Pow10(DigitsOf(n) - FloatDigits)
         IN  RoundHalfEven(n, q) * q

WeiPerGwei == Pow10(GweiDecimals)

\* ethers.parseUnits(s, 'gwei') of a decimal string with one decimal place
parseUnits(s) == s[1] * WeiPerGwei + s[2] * (WeiPerGwei \div 10)

\* parseFloat of a decimal string: the nearest number, as a count of wei
parseFloat(s) == RoundSig(s[1] * WeiPerEther + s[2])

----------------------------------------------------------------------------
\* The decisions of the code, one operator each.

NeverDropped == FALSE

\* processNextPool: if (this.isProcessing) return;
TickDropped == isProcessing

\* processNextPool: parseFloat(balance) > poolConfig.threshold
AboveThreshold(balance, p) == parseFloat(balance) > threshold(p)

NextIndexNoWrap(i) == i + 1

\* processNextPool: (this.currentPoolIndex + 1) % this.processOrder.length
NextIndex(i) == (i + 1) % PoolCount

KeepTickFlag == isProcessing

\* processNextPool: finally { this.isProcessing = false }
TickFlagAfter == FALSE

NeverRunning == FALSE

\* startMonitoring: if (this.interval) return;
AlreadyRunning == interval

NeverInFlight(p) == FALSE

\* executeSwap: if (this.isProcessing) { ...; return; }
SwapInFlight(p) == swapProcessing[p]

BelowThresholdStrict(balanceNum, p) == balanceNum < threshold(p)

\* executeSwap: if (balanceNum <= poolConfig.threshold) return;
BelowThreshold(balanceNum, p) == balanceNum <= threshold(p)

KeepSwapFlag(flags, p) == flags

\* executeSwap: finally { this.isProcessing = false }
ReleaseSwap(flags, p) == [flags EXCEPT ![p] = FALSE]

ErrorSwallowed(ok) == TRUE

\* executeSwap: catch (error) { log; throw error }: the awaiting tick goes on after a
\* return (ok) and jumps to its own catch block after a throw
SwapOutcome(ok) == ok

TicksAborted == EmptyBag

\* stopMonitoring: no statement of it touches an invocation of processNextPool() that
\* is suspended at an await
TicksAfterStop == ticks

CursorReset == IF interval THEN 0 ELSE currentPoolIndex

\* stopMonitoring and startMonitoring: no statement of them assigns currentPoolIndex
CursorAfterStopOrStart == currentPoolIndex

TimerKept == timers

\* stopMonitoring: if (this.interval) { clearInterval(this.interval); ... }
TimersAfterStop == IF interval THEN timers - 1 ELSE timers

\* executeSwap: (balanceNum * poolConfig.withdrawal_percentage) / 100, the product
\* rounded to a number; the result is a count of hundredths of a wei
WithdrawalAmount(balanceNum) == RoundSig(balanceNum * withdrawal_percentage)

\* result of a parseEther() that throws
ParseError == -1

\* ethers.parseEther(x.toString()) of a number x given in hundredths of a wei: the
\* decimal string converted exactly; digits below one wei make parseEther throw
parseEther(hundredths) ==
    IF hundredths % 100 = 0 THEN hundredths \div 100 ELSE ParseError

\* executeSwap: withdrawalAmountWei
WithdrawalWei(balanceNum) == parseEther(WithdrawalAmount(balanceNum))

\* poolConfig.batch_mint_amount
batch_mint_amount(p) == IF p = "usdc_weth" THEN 1 ELSE 2

\* a field of FeeData that the network does not provide (null)
Null == -1

\* a > b of a bigint a and a FeeData field b: null compares as 0
GreaterThan(a, b) == a > (IF b = Null THEN 0 ELSE b)

FloorAsCap(floor, suggested) == IF GreaterThan(floor, suggested) THEN suggested ELSE floor

\* executeTransaction: floor > gasPrice.field ? floor : gasPrice.field
EffectiveFee(floor, suggested) == IF GreaterThan(floor, suggested) THEN floor ELSE suggested

SwapNotAwaited(stage) == IF stage = "swap" THEN "wethBalance" ELSE "wait"

\* what follows executeTransaction() at each of its four call sites: await result.wait()
AfterSend(stage) == "wait"

ApprovalRechecked(stage) ==
    CASE stage = "mint" -> "mintBalance"
      [] stage = "approve" -> "allowance"
      [] stage = "swap" -> "wethBalance"
      [] OTHER -> "ethAfter"

\* what follows a result.wait(), by the step that submitted the transaction: mintTokens
\* reads the balance again and tests its loop; checkAndApproveToken returns and
\* executeSwap reads the pool's fee; executeSwap reads the acquired WETH; unwrapWETH
\* reads the native balance
AfterReceipt(stage) ==
    CASE stage = "mint" -> "mintBalance"
      [] stage = "approve" -> "fee"
      [] stage = "swap" -> "wethBalance"
      [] OTHER -> "ethAfter"

MintNever(currentBalance, targetAmount) == FALSE

MintWhileBelowOrEqual(currentBalance, targetAmount) == currentBalance <= targetAmount

\* mintTokens: while (currentBalance < targetAmount)
MintAgain(currentBalance, targetAmount) == currentBalance < targetAmount

ProfitReversed(ethBalanceBefore, ethBalanceAfter) == ethBalanceBefore - ethBalanceAfter

\* unwrapWETH: const profit = ethBalanceAfter - ethBalanceBefore
Profit(ethBalanceBefore, ethBalanceAfter) == ethBalanceAfter - ethBalanceBefore

\* executeSwap: if (acquiredWETH > BigInt(0))
ShouldUnwrap(acquiredWETH) == acquiredWETH > 0

ApproveAtEqual(allowance, amount) == allowance <= amount

ApproveNever(allowance, amount) == FALSE

\* checkAndApproveToken: if (allowance < amount)
NeedsApproval(allowance, amount) == allowance < amount

\* result of a BigInt division that throws
DivisionError == -1

DivisionByZeroIsZero(tokenBalance, wethAmount, wethBalance) ==
    IF wethBalance = 0 THEN 0 ELSE (tokenBalance * wethAmount) \div wethBalance

\* calculateRequiredTokenAmount: (tokenBalance * wethAmount) / wethBalance, BigInt
\* division: it rounds down, and a zero divisor throws a RangeError
RequiredAmount(tokenBalance, wethAmount, wethBalance) ==
    IF wethBalance = 0 THEN DivisionError ELSE (tokenBalance * wethAmount) \div wethBalance

WithoutBuffer(requiredTokens) == requiredTokens

\* executeSwap: (requiredTokens * BigInt(110)) / BigInt(100)
WithBuffer(requiredTokens) == (requiredTokens * 110) \div 100

----------------------------------------------------------------------------
\* Suspended invocations.  A tick is the record of one processNextPool() invocation
\* that is suspended at an await: where it is, the pool it selected, and the locals of
\* the executeSwap() it is in.  Invocations have no identity of their own, so the
\* suspended ones form a bag.

\* a value that has not been read: the result of getPoolBalance(), an allowance
NoRead == -1

\* value of a nonce that is not held, or was read from a chain the model does not follow
NoNonce == -1

\* getPoolBalance() threw: its catch block logged and rethrew the read's error
ReadError == -2

\* bal is balanceNum of executeSwap(), -1 before it is read; nonce is the local of the
\* step that is about to submit; sent lists the transactions submitted, in order; read
\* is what getPoolBalance() settled with, in wei, until its caller resumes; allowance
\* is the last value checkAndApproveToken() read and balance the last value of
\* currentBalance in mintTokens(), both kept until the swap is confirmed; weth is
\* acquiredWETH of executeSwap(), the amount passed to unwrapWETH(); before is
\* ethBalanceBefore of unwrapWETH(); reserve is wethBalance of
\* calculateRequiredTokenAmount(), kept until mintTokens() has read the signer's balance
NewTick(p) == [pc |-> "balance", pool |-> p, stage |-> "none", bal |-> -1, target |-> 0,
               mints |-> 0, txs |-> 0, reentered |-> FALSE, nonce |-> NoNonce,
               sent |-> <<>>, read |-> NoRead, allowance |-> NoRead, weth |-> NoRead,
               before |-> 0, balance |-> NoRead, reserve |-> NoRead]

\* the amount argument of the transaction tick r is about to submit: batchSize of
\* mintTokens, amount of checkAndApproveToken, params.amountIn of executeSwap, amount
\* of unwrapWETH
TxAmount(r) ==
    CASE r.stage = "mint" -> batch_mint_amount(r.pool)
      [] r.stage = "approve" -> r.target
      [] r.stage = "swap" -> r.target
      [] OTHER -> r.weth

\* positions inside SwapService.executeSwap()
SwapPcs == {"swapBalance", "swapBalanceDone", "reserves", "mintBalance", "nonce", "send", "wait",
            "allowance", "fee", "wethBalance", "ethBefore", "ethAfter"}

RunningTicks == BagToSet(ticks)

\* the ticks suspended at position pc
At(pc) == {r \in RunningTicks : r.pc = pc}

InSwap(r) == r.pc \in SwapPcs

\* number of ticks suspended inside executeSwap() of pool p
SwapsInFlight(p) ==
    BagCardinality([r \in {x \in RunningTicks : InSwap(x) /\ x.pool = p} |-> ticks[r]])

Remove(r) == ticks (-) SetToBag({r})

Replace(r, rec) == Remove(r) (+) SetToBag({rec})

\* history record of the tick that ended in the last step: how it ended, its pool, how
\* its executeSwap() call ended, the balance executeSwap() read (-1: none), the
\* transactions executeSwap() submitted, the pool named in the error log, whether
\* executeSwap() was called while the executor's flag was set, the number of
\* logSwapSuccess() calls of the invocation and what the call reported, and the
\* acquiredWETH the invocation read
NoEvent == [op |-> "none", pool |-> "none", swap |-> "none", bal |-> -1, txs |-> 0,
            logged |-> "none", reentered |-> FALSE, sent |-> <<>>, reports |-> 0,
            weth |-> NoRead, before |-> 0, after |-> 0, profit |-> 0, reserve |-> NoRead]

\* an invocation that ends without reaching the read of acquiredWETH, and not in the
\* step that read the reserves
NoOutcome == [reports |-> 0, weth |-> NoRead, before |-> 0, after |-> 0, profit |-> 0,
              reserve |-> NoRead]

\* The signer's account on the chain: the number of its confirmed transactions and its
\* base-token balance.  Where the chain is followed the signer is its only writer and
\* a confirmed mint adds exactly the batch size; where it is not, a read of the
\* balance returns any amount and the value of a nonce is not kept.
NoChain == [followed |-> FALSE, nonce |-> 0, balance |-> 0]

CachedNonce == {0}

\* provider.getTransactionCount(signer.address)
NonceReads == IF chain.followed THEN {chain.nonce} ELSE {NoNonce}

\* tokenContract.balanceOf(signer.address)
SignerBalances == IF chain.followed THEN {chain.balance} ELSE 0..MaxToken

\* wethContract.balanceOf(signer.address) after the swap.  Where the chain is not
\* followed the amounts around the unwrap are not kept apart: a read tells only
\* whether there is a balance.
WethBalances == IF chain.followed THEN 0..MaxWeth ELSE 0..1

\* provider.getBalance(signer.address)
NativeBalances == IF chain.followed THEN 0..MaxEth ELSE {0}

\* the chain after the transaction that tick r waits for is confirmed
Confirmed(r) ==
    IF ~chain.followed
    THEN chain
    ELSE [chain EXCEPT !.nonce = @ + 1,
                       !.balance = CASE r.stage = "mint" -> @ + batch_mint_amount(r.pool)
                                     [] r.stage = "swap" -> @ - r.target
                                     [] OTHER -> @]

\* no function has been applied
NoCalc == [fn |-> "none"]

\* no tick has started
NoSelection == -1

\* the program after construction
InitProgram ==
    /\ isProcessing = FALSE
    /\ interval = FALSE
    /\ timers = 0
    /\ currentPoolIndex = 0
    /\ swapProcessing = [p \in PoolTypes |-> FALSE]
    /\ ticks = EmptyBag
    /\ tickCount = 0
    /\ selected = NoSelection
    /\ last = NoEvent

Init ==
    /\ InitProgram
    /\ chain = NoChain
    /\ calc = NoCalc

----------------------------------------------------------------------------
\* PoolMonitorService.

\* processNextPool() up to its first await: the guard, the flag, the pool at the cursor
\* and the call of getPoolBalance()
ProcessNextPool ==
    IF TickDropped
    THEN UNCHANGED <<isProcessing, ticks>>
    ELSE /\ BagCardinality(ticks) < MaxTicks
         /\ isProcessing' = TRUE
         /\ ticks' = ticks (+) SetToBag({NewTick(PoolAt(currentPoolIndex))})

\* processNextPool() after its last await: the cursor advance that ends the try block
\* (ok), or the catch block's log, and then the finally block
FinishTick(r, ok, swap, bal, re, out) ==
    /\ currentPoolIndex' = IF ok THEN NextIndex(currentPoolIndex) ELSE currentPoolIndex
    /\ isProcessing' = TickFlagAfter
    /\ ticks' = Remove(r)
    /\ last' = [op |-> IF ok THEN "tickDone" ELSE "tickError",
                pool |-> r.pool, swap |-> swap, bal |-> bal, txs |-> r.txs,
                logged |-> IF ok THEN "none" ELSE PoolAt(currentPoolIndex),
                reentered |-> re, sent |-> r.sent, reports |-> out.reports,
                weth |-> out.weth, before |-> out.before, after |-> out.after,
                profit |-> out.profit, reserve |-> out.reserve]
    /\ UNCHANGED <<interval, timers>>

StartMonitoring ==
    IF AlreadyRunning
    THEN UNCHANGED <<isProcessing, interval, timers, currentPoolIndex, swapProcessing,
                     ticks, last, chain>>
    ELSE /\ interval' = TRUE
         /\ timers' = timers + 1
         /\ ProcessNextPool
         /\ last' = NoEvent
         /\ currentPoolIndex' = CursorAfterStopOrStart
         /\ UNCHANGED <<swapProcessing, chain>>

StopMonitoring ==
    /\ interval' = FALSE
    /\ timers' = TimersAfterStop
    /\ isProcessing' = FALSE
    /\ ticks' = TicksAfterStop
    /\ last' = NoEvent
    /\ currentPoolIndex' = CursorAfterStopOrStart
    /\ UNCHANGED <<swapProcessing, chain>>

\* the setInterval callback: () => this.processNextPool()
TimerFire ==
    /\ timers > 0
    /\ ProcessNextPool
    /\ last' = NoEvent
    /\ UNCHANGED <<interval, timers, currentPoolIndex, swapProcessing, chain>>

PoolBalanceSubmits(r, result) ==
    [r EXCEPT !.pc = IF r.pc = "balance" THEN "balanceDone" ELSE "swapBalanceDone",
              !.read = result, !.txs = @ + 1]

\* the invocation that awaits getPoolBalance(), once the call has settled with result:
\* getPoolBalance() assigns no field and calls nothing but the read
PoolBalanceSettled(r, result) ==
    [r EXCEPT !.pc = IF r.pc = "balance" THEN "balanceDone" ELSE "swapBalanceDone",
              !.read = result]

\* SwapService.getPoolBalance(), awaited by processNextPool() or by executeSwap(): the
\* read of the pool's quote-asset balance returns and the call returns the formatted
\* balance, or the read rejects and the catch block logs and rethrows.  The caller
\* resumes in a later step.
GetPoolBalance ==
    \E r \in At("balance") \cup At("swapBalance"), result \in PoolBalances \cup {ReadError} :
        /\ ticks' = Replace(r, PoolBalanceSettled(r, result))
        /\ last' = NoEvent
        /\ UNCHANGED <<isProcessing, interval, timers, currentPoolIndex, swapProcessing, chain>>

\* processNextPool: await swapService.getPoolBalance() throws
PoolBalanceFails ==
    \E r \in At("balanceDone") :
        /\ r.read = ReadError
        /\ FinishTick(r, FALSE, "notCalled", -1, FALSE, NoOutcome)
        /\ UNCHANGED <<swapProcessing, chain>>

\* processNextPool: getPoolBalance() returns; the threshold test and, above the
\* threshold, executeSwap() up to its first await
PoolBalanceRead ==
    \E r \in At("balanceDone") :
        LET balance == formatEther(r.read)
        IN  r.read # ReadError /\
            IF ~AboveThreshold(balance, r.pool)
            THEN /\ FinishTick(r, TRUE, "notCalled", -1, FALSE, NoOutcome)
                 /\ UNCHANGED <<swapProcessing, chain>>
            ELSE IF SwapInFlight(r.pool)
            THEN /\ FinishTick(r, TRUE, "skipped", -1, TRUE, NoOutcome)
                 /\ UNCHANGED <<swapProcessing, chain>>
            ELSE /\ swapProcessing' = [swapProcessing EXCEPT ![r.pool] = TRUE]
                 /\ ticks' = Replace(r, [r EXCEPT !.pc = "swapBalance", !.read = NoRead,
                                                  !.reentered = swapProcessing[r.pool]])
                 /\ last' = NoEvent
                 /\ UNCHANGED <<isProcessing, interval, timers, currentPoolIndex, chain>>

----------------------------------------------------------------------------
\* SwapService.executeSwap(), called by a tick.

\* executeSwap() returns (ok) or throws: its finally block, and then the rest of the
\* tick that awaited it
ExitSwap(r, ok, swap, bal, out) ==
    /\ swapProcessing' = ReleaseSwap(swapProcessing, r.pool)
    /\ FinishTick(r, SwapOutcome(ok), swap, bal, r.reentered, out)
    /\ UNCHANGED chain

\* a step inside executeSwap() that goes on to the next await
SwapStep(r, rec) ==
    /\ ticks' = Replace(r, rec)
    /\ last' = NoEvent
    /\ UNCHANGED <<isProcessing, interval, timers, currentPoolIndex, swapProcessing, chain>>

\* any await of executeSwap() rejects: a read fails, a submission fails, a
\* transaction reverts.  Every catch block on the way logs and rethrows.  A
\* transaction that reverted was confirmed and has used its nonce.
SwapStepFails ==
    \E r \in RunningTicks, reverted \in BOOLEAN :
        /\ InSwap(r)
        /\ r.pc # "swapBalance"
        /\ r.pc = "swapBalanceDone" => r.read = ReadError
        /\ swapProcessing' = ReleaseSwap(swapProcessing, r.pool)
        /\ FinishTick(r, SwapOutcome(FALSE), "failed", r.bal, r.reentered,
                      [NoOutcome EXCEPT !.weth = r.weth])
        /\ chain' = IF reverted /\ r.pc = "wait" /\ chain.followed /\ chain.nonce < MaxNonce
                    THEN [chain EXCEPT !.nonce = @ + 1]
                    ELSE chain

\* executeSwap: getPoolBalance() returns; the threshold test; the withdrawal size;
\* calculateRequiredTokenAmount() up to its two reads
SwapBalanceRead ==
    \E r \in At("swapBalanceDone") :
        LET balanceNum == parseFloat(formatEther(r.read))
        IN  r.read # ReadError /\
            IF BelowThreshold(balanceNum, r.pool)
            THEN ExitSwap(r, TRUE, "belowThreshold", balanceNum, NoOutcome)
            ELSE IF WithdrawalWei(balanceNum) = ParseError
            THEN ExitSwap(r, FALSE, "failed", balanceNum, NoOutcome)
            ELSE SwapStep(r, [r EXCEPT !.pc = "reserves", !.bal = balanceNum,
                                       !.read = NoRead])

\* calculateRequiredTokenAmount: both reserves are read; a zero quote reserve makes
\* the BigInt division throw.  Then the buffer and mintTokens() up to its first read.
ReservesRead ==
    \E r \in At("reserves"), tokenBalance \in 0..MaxToken, wethBalance \in PoolBalances :
        LET requiredTokens == RequiredAmount(tokenBalance, WithdrawalWei(r.bal), wethBalance)
        IN  IF requiredTokens = DivisionError
            THEN ExitSwap(r, FALSE, "failed", r.bal, [NoOutcome EXCEPT !.reserve = wethBalance])
            ELSE SwapStep(r, [r EXCEPT !.pc = "mintBalance", !.stage = "mint",
                                       !.reserve = wethBalance,
                                       !.target = WithBuffer(requiredTokens)])

\* mintTokens: the signer's base-token balance is read (first read, or re-read after a
\* mint and the pause); the loop test; after the loop checkAndApproveToken() starts
SignerBalanceRead ==
    \E r \in At("mintBalance"), currentBalance \in SignerBalances :
        IF MintAgain(currentBalance, r.target)
        THEN /\ r.mints < MaxMints
             /\ SwapStep(r, [r EXCEPT !.pc = "nonce", !.balance = currentBalance,
                                       !.reserve = NoRead])
        ELSE SwapStep(r, [r EXCEPT !.pc = "allowance", !.stage = "approve",
                                   !.balance = currentBalance, !.reserve = NoRead])

\* getNonce() returns; the transaction is populated and executeTransaction() reads the fees
NonceRead ==
    \E r \in At("nonce"), nonce \in NonceReads :
        SwapStep(r, [r EXCEPT !.pc = "send", !.nonce = nonce])

\* executeTransaction: signer.sendTransaction() accepts the transaction, which carries
\* the nonce passed in
SendTransaction ==
    \E r \in At("send") :
        SwapStep(r, [r EXCEPT !.pc = AfterSend(r.stage), !.txs = @ + 1,
                              !.mints = IF r.stage = "mint" THEN @ + 1 ELSE @,
                              !.nonce = NoNonce,
                              !.sent = Append(@, [kind |-> r.stage, nonce |-> r.nonce,
                                                  amount |-> TxAmount(r)])])

\* result.wait() returns the receipt of the confirmed transaction; what follows depends
\* on the step that sent it
WaitReceipt ==
    \E r \in At("wait") :
        /\ chain.followed => chain.nonce < MaxNonce
        /\ ticks' = Replace(r, [r EXCEPT !.pc = AfterReceipt(r.stage),
                                          !.balance = IF r.stage = "swap" THEN NoRead ELSE @,
                                          !.allowance = IF r.stage = "swap" THEN NoRead ELSE @])
        /\ chain' = Confirmed(r)
        /\ last' = NoEvent
        /\ UNCHANGED <<isProcessing, interval, timers, currentPoolIndex, swapProcessing>>

\* checkAndApproveToken: the allowance is read; below the amount an approval is sent
AllowanceRead ==
    \E r \in At("allowance"), allowance \in 0..MaxToken :
        IF NeedsApproval(allowance, r.target)
        THEN SwapStep(r, [r EXCEPT !.pc = "nonce", !.allowance = allowance])
        ELSE SwapStep(r, [r EXCEPT !.pc = "fee", !.allowance = allowance])

\* executeSwap: poolContract.fee() returns; the swap parameters are built
FeeRead ==
    \E r \in At("fee") :
        SwapStep(r, [r EXCEPT !.pc = "nonce", !.stage = "swap"])

\* executeSwap: the signer's WETH balance after the swap; positive starts unwrapWETH(),
\* zero ends executeSwap() with no report
WethBalanceRead ==
    \E r \in At("wethBalance"), acquiredWETH \in WethBalances :
        IF ShouldUnwrap(acquiredWETH)
        THEN SwapStep(r, [r EXCEPT !.pc = "ethBefore", !.stage = "unwrap",
                                   !.weth = acquiredWETH])
        ELSE ExitSwap(r, TRUE, "completed", r.bal, [NoOutcome EXCEPT !.weth = acquiredWETH])

\* unwrapWETH: the native balance before the unwrap
EthBalanceBefore ==
    \E r \in At("ethBefore"), ethBalanceBefore \in NativeBalances :
        SwapStep(r, [r EXCEPT !.pc = "nonce", !.before = ethBalanceBefore])

\* unwrapWETH: the native balance after the unwrap; the one logSwapSuccess() call of
\* the source; executeSwap returns
EthBalanceAfter ==
    \E r \in At("ethAfter"), ethBalanceAfter \in NativeBalances :
        ExitSwap(r, TRUE, "completed", r.bal,
                 [reports |-> 1, weth |-> r.weth, before |-> r.before,
                  after |-> ethBalanceAfter, profit |-> Profit(r.before, ethBalanceAfter),
                  reserve |-> NoRead])

----------------------------------------------------------------------------
\* Functions checked on their own: calc holds the inputs, and then the results.

\* provider.getFeeData() as executeTransaction() may see it
FeeInputs ==
    [fn : {"fees"}, done : {FALSE},
     suggestedMaxFee : {Null} \cup 0..(MaxFeeGwei * WeiPerGwei),
     suggestedPriorityFee : {Null} \cup 0..(MaxFeeGwei * WeiPerGwei),
     maxFeePerGas : {Null}, maxPriorityFeePerGas : {Null}]

\* executeTransaction: the fee fields of txRequest
ExecuteTransaction ==
    /\ calc.fn = "fees"
    /\ ~calc.done
    /\ calc' = [calc EXCEPT
                  !.done = TRUE,
                  !.maxFeePerGas = EffectiveFee(parseUnits(max_fee), calc.suggestedMaxFee),
                  !.maxPriorityFeePerGas =
                      EffectiveFee(parseUnits(priority_fee), calc.suggestedPriorityFee)]
    /\ UNCHANGED <<isProcessing, interval, timers, currentPoolIndex, swapProcessing, ticks,
                   tickCount, selected, last, chain>>

\* a pool as executeSwap() may find it: its quote-asset balance to the wei, and the
\* two reserves calculateRequiredTokenAmount() reads
SizingInputs ==
    [fn : {"sizing"}, done : {FALSE},
     wei : 0..(MaxBalance * (WeiPerEther \div 2)),
     tokenBalance : 0..MaxReserve,
     wethBalance : PoolBalances,
     outcome : {"none"}, withdrawalAmountWei : {0}, requiredTokens : {0},
     mintTarget : {0}, approveAmount : {0}, amountIn : {0}]

\* executeSwap from the balance it reads to the amounts it passes on: balanceNum, the
\* threshold test, withdrawalAmountWei, calculateRequiredTokenAmount(), the buffer, and
\* the arguments of mintTokens(), checkAndApproveToken() and exactInputSingle()
SizeSwap ==
    /\ calc.fn = "sizing"
    /\ ~calc.done
    /\ LET balanceNum == parseFloat(formatEther(calc.wei))
           withdrawalAmountWei == WithdrawalWei(balanceNum)
           requiredTokens ==
               RequiredAmount(calc.tokenBalance, withdrawalAmountWei, calc.wethBalance)
           requiredTokensWithBuffer == WithBuffer(requiredTokens)
       IN  calc' =
             IF BelowThreshold(balanceNum, PoolAt(0))
             THEN [calc EXCEPT !.done = TRUE, !.outcome = "belowThreshold"]
             ELSE IF withdrawalAmountWei = ParseError
             THEN [calc EXCEPT !.done = TRUE, !.outcome = "failed"]
             ELSE IF requiredTokens = DivisionError
             THEN [calc EXCEPT !.done = TRUE, !.outcome = "failed",
                               !.withdrawalAmountWei = withdrawalAmountWei]
             ELSE [calc EXCEPT !.done = TRUE, !.outcome = "sized",
                               !.withdrawalAmountWei = withdrawalAmountWei,
                               !.requiredTokens = requiredTokens,
                               !.mintTarget = requiredTokensWithBuffer,
                               !.approveAmount = requiredTokensWithBuffer,
                               !.amountIn = requiredTokensWithBuffer]
    /\ UNCHANGED <<isProcessing, interval, timers, currentPoolIndex, swapProcessing, ticks,
                   tickCount, selected, last, chain>>

\* a pool as a tick may find it: its quote-asset balance to the wei
ThresholdInputs ==
    [fn : {"threshold"}, done : {FALSE},
     wei : 0..(MaxBalance * (WeiPerEther \div 2)),
     called : {FALSE}]

\* processNextPool from the balance getPoolBalance() returns to the decision to call
\* executeSwap(): if (parseFloat(balance) > poolConfig.threshold)
CompareThreshold ==
    /\ calc.fn = "threshold"
    /\ ~calc.done
    /\ calc' = [calc EXCEPT !.done = TRUE,
                            !.called = AboveThreshold(formatEther(calc.wei), PoolAt(0))]
    /\ UNCHANGED <<isProcessing, interval, timers, currentPoolIndex, swapProcessing, ticks,
                   tickCount, selected, last, chain>>

----------------------------------------------------------------------------
\* Specifications.

\* history: no tick is counted
Uncounted == UNCHANGED <<tickCount, selected, calc>>

\* history: a tick that starts in this step is counted
CountTicks ==
    /\ tickCount' = IF BagCardinality(ticks') > BagCardinality(ticks)
                    THEN (tickCount + 1) % PoolCount
                    ELSE tickCount
    /\ UNCHANGED <<selected, calc>>

\* history: the pool selected by a tick that starts in this step is kept
TrackSelected ==
    /\ selected' = IF BagCardinality(ticks') > BagCardinality(ticks)
                   THEN currentPoolIndex
                   ELSE selected
    /\ UNCHANGED <<tickCount, calc>>

\* a suspended tick resumes: any of the continuations of processNextPool()
TickStep ==
    \/ GetPoolBalance
    \/ PoolBalanceFails
    \/ PoolBalanceRead
    \/ SwapStepFails
    \/ SwapBalanceRead
    \/ ReservesRead
    \/ SignerBalanceRead
    \/ NonceRead
    \/ SendTransaction
    \/ WaitReceipt
    \/ AllowanceRead
    \/ FeeRead
    \/ WethBalanceRead
    \/ EthBalanceBefore
    \/ EthBalanceAfter

\* the monitor's public operations called in any order, the timer, and the ticks
Next ==
    \/ StartMonitoring /\ Uncounted
    \/ StopMonitoring /\ Uncounted
    \/ TimerFire /\ Uncounted
    \/ GetPoolBalance /\ Uncounted
    \/ PoolBalanceFails /\ Uncounted
    \/ PoolBalanceRead /\ Uncounted
    \/ SwapStepFails /\ Uncounted
    \/ SwapBalanceRead /\ Uncounted
    \/ ReservesRead /\ Uncounted
    \/ SignerBalanceRead /\ Uncounted
    \/ NonceRead /\ Uncounted
    \/ SendTransaction /\ Uncounted
    \/ WaitReceipt /\ Uncounted
    \/ AllowanceRead /\ Uncounted
    \/ FeeRead /\ Uncounted
    \/ WethBalanceRead /\ Uncounted
    \/ EthBalanceBefore /\ Uncounted
    \/ EthBalanceAfter /\ Uncounted

Spec == Init /\ [][Next]_vars

\* the same operations in any order, with the pool of the last tick started kept
NextSelection ==
    \/ StartMonitoring /\ TrackSelected
    \/ StopMonitoring /\ TrackSelected
    \/ TimerFire /\ TrackSelected
    \/ GetPoolBalance /\ TrackSelected
    \/ PoolBalanceFails /\ TrackSelected
    \/ PoolBalanceRead /\ TrackSelected
    \/ SwapStepFails /\ TrackSelected
    \/ SwapBalanceRead /\ TrackSelected
    \/ ReservesRead /\ TrackSelected
    \/ SignerBalanceRead /\ TrackSelected
    \/ NonceRead /\ TrackSelected
    \/ SendTransaction /\ TrackSelected
    \/ WaitReceipt /\ TrackSelected
    \/ AllowanceRead /\ TrackSelected
    \/ FeeRead /\ TrackSelected
    \/ WethBalanceRead /\ TrackSelected
    \/ EthBalanceBefore /\ TrackSelected
    \/ EthBalanceAfter /\ TrackSelected

SpecSelection == Init /\ [][NextSelection]_vars

\* the monitor started once and never stopped, as the bot runs it: ticks follow one
\* another, and the ticks started are counted
NextRoundRobin ==
    \/ StartMonitoring /\ CountTicks
    \/ TimerFire /\ CountTicks
    \/ GetPoolBalance /\ CountTicks
    \/ PoolBalanceFails /\ CountTicks
    \/ PoolBalanceRead /\ CountTicks
    \/ SwapStepFails /\ CountTicks
    \/ SwapBalanceRead /\ CountTicks
    \/ ReservesRead /\ CountTicks
    \/ SignerBalanceRead /\ CountTicks
    \/ NonceRead /\ CountTicks
    \/ SendTransaction /\ CountTicks
    \/ WaitReceipt /\ CountTicks
    \/ AllowanceRead /\ CountTicks
    \/ FeeRead /\ CountTicks
    \/ WethBalanceRead /\ CountTicks
    \/ EthBalanceBefore /\ CountTicks
    \/ EthBalanceAfter /\ CountTicks

SpecRoundRobin == Init /\ [][NextRoundRobin]_vars

\* the bot's run under the scheduling the runtime gives it: startMonitoring() is called
\* at start-up, the interval timer keeps firing, and every await of a tick settles
SpecFair ==
    /\ SpecRoundRobin
    /\ WF_vars(StartMonitoring /\ CountTicks)
    /\ WF_vars(TimerFire /\ CountTicks)
    /\ WF_vars(TickStep /\ CountTicks)

\* the monitor started once and never stopped, on a chain the model follows: the
\* signer has no other writer and starts with any balance
InitChain ==
    /\ InitProgram
    /\ chain \in [followed : {TRUE}, nonce : {0}, balance : 0..MaxToken]
    /\ calc = NoCalc

NextChain ==
    \/ StartMonitoring /\ Uncounted
    \/ TimerFire /\ Uncounted
    \/ GetPoolBalance /\ Uncounted
    \/ PoolBalanceFails /\ Uncounted
    \/ PoolBalanceRead /\ Uncounted
    \/ SwapStepFails /\ Uncounted
    \/ SwapBalanceRead /\ Uncounted
    \/ ReservesRead /\ Uncounted
    \/ SignerBalanceRead /\ Uncounted
    \/ NonceRead /\ Uncounted
    \/ SendTransaction /\ Uncounted
    \/ WaitReceipt /\ Uncounted
    \/ AllowanceRead /\ Uncounted
    \/ FeeRead /\ Uncounted
    \/ WethBalanceRead /\ Uncounted
    \/ EthBalanceBefore /\ Uncounted
    \/ EthBalanceAfter /\ Uncounted

SpecChain == InitChain /\ [][NextChain]_vars

\* the functions applied to inputs drawn from their domains
InitFunctions ==
    /\ InitProgram
    /\ chain = NoChain
    /\ calc \in FeeInputs \cup SizingInputs \cup ThresholdInputs

NextFunctions ==
    \/ ExecuteTransaction
    \/ SizeSwap
    \/ CompareThreshold

SpecFunctions == InitFunctions /\ [][NextFunctions]_vars

----------------------------------------------------------------------------
\* Properties.

\* C1: at most one swap is in flight per pool.  An executeSwap() called while the
\* executor's flag is set never gets past the guard: no tick that made such a call is
\* ever suspended inside the protocol, the call ends with no transaction and no read,
\* and the flag stays set for the invocation that is running.
AtMostOneSwapPerPool ==
    /\ \A p \in PoolTypes : SwapsInFlight(p) <= 1
    /\ \A r \in RunningTicks : ~r.reentered
    /\ last.reentered =>
         /\ last.swap = "skipped"
         /\ last.txs = 0
         /\ swapProcessing[last.pool]
         /\ SwapsInFlight(last.pool) = 1

\* a tick called executeSwap() while another invocation for the same pool was running
ReentrantCallSkipped ==
    /\ last.op = "tickDone"
    /\ last.reentered
    /\ last.swap = "skipped"

\* C2: an executeSwap() that read a balance at or below the threshold submits no
\* transaction, then or later.
ZeroTransactionsBelowThreshold ==
    /\ \A r \in RunningTicks :
         (r.bal >= 0 /\ r.bal <= threshold(r.pool)) => r.txs = 0
    /\ (last.bal >= 0 /\ last.bal <= threshold(last.pool)) =>
         (last.txs = 0 /\ last.swap \in {"belowThreshold", "failed"})

\* executeSwap() read a balance equal to the threshold and returned
ReturnedAtThreshold ==
    /\ last.swap = "belowThreshold"
    /\ last.bal = threshold(last.pool)
    /\ last.txs = 0

\* C3: the executor's flag is set only while the invocation that set it is running, and
\* is clear in the state an invocation leaves, however it ended.
FlagClearedOnEveryExit ==
    /\ \A p \in PoolTypes :
         swapProcessing[p] => SwapsInFlight(p) > 0
    /\ last.swap \in {"belowThreshold", "completed", "failed"} => ~swapProcessing[last.pool]

\* executeSwap() threw after it had submitted a transaction
SwapFailedAfterTransaction ==
    /\ last.swap = "failed"
    /\ last.txs > 0
    /\ ~swapProcessing[last.pool]

\* C4: every tick that ends, with or without an error, leaves the cursor advanced by
\* one modulo the pool count.
CursorAdvancesEveryTick ==
    [][last'.op \in {"tickDone", "tickError"}
          => currentPoolIndex' = (currentPoolIndex + 1) % PoolCount]_vars

\* C5: ticks that follow one another select the pools in process order, and after
\* every PoolCount ticks the cursor is back at its starting position.
RoundRobinReturns ==
    /\ (RunningTicks = {} /\ tickCount = 0) => currentPoolIndex = 0
    /\ \A r \in RunningTicks : r.pool = PoolAt((tickCount + PoolCount - 1) % PoolCount)

\* C6: the cursor is an index of processOrder.
CursorInRange == currentPoolIndex \in 0..(PoolCount - 1)

\* a tick for the last pool ended and the cursor wrapped
CursorWrapped ==
    /\ last.op = "tickDone"
    /\ last.pool = PoolAt(PoolCount - 1)
    /\ currentPoolIndex = 0

\* C7: a tick that ends with an error leaves the timer as it was and the monitor's flag
\* clear, so the next timer fire is not dropped; the flag is never left set with no
\* tick running.
ErrorCaughtAtTick ==
    [][/\ last'.op = "tickError" =>
            /\ isProcessing' = FALSE
            /\ interval' = interval
            /\ timers' = timers
       /\ isProcessing' => ticks' # EmptyBag]_vars

\* a tick failed inside executeSwap() after a transaction, with the timer armed
TickFailedTimerArmed ==
    /\ last.op = "tickError"
    /\ last.swap = "failed"
    /\ last.txs > 0
    /\ interval
    /\ timers = 1
    /\ ~isProcessing

\* C8: while a tick is in flight a timer fire starts no tick.
OverlappingFireDropped ==
    [][(ticks # EmptyBag /\ interval' = interval)
          => BagCardinality(ticks') <= BagCardinality(ticks)]_vars

\* C9: at most one tick body is executing.
OneTickAtATime == BagCardinality(ticks) <= 1

\* C10: at most one timer is armed, and it is the one the monitor holds; a step that
\* arms the timer starts from a stopped monitor and starts exactly one tick; while the
\* monitor is running no step arms a timer.
StartIdempotent ==
    [][/\ timers' <= 1
       /\ interval' <=> timers' = 1
       /\ (interval' /\ ~interval) =>
            /\ timers = 0
            /\ BagCardinality(ticks') = BagCardinality(ticks) + 1
       /\ (interval /\ interval') => (timers' = timers)]_vars

\* the monitor was stopped and started again while an earlier tick was still running
RestartedWithOneTimer ==
    /\ interval
    /\ timers = 1
    /\ BagCardinality(ticks) = 2

\* C11: a stopMonitoring() step leaves no timer armed, the handle null, the monitor's
\* flag clear and the suspended ticks as they were; on a stopped monitor it changes
\* nothing; and while the monitor stays stopped no step starts a tick.
StopCancelsTimer ==
    [][/\ StopMonitoring =>
            /\ ~interval'
            /\ timers' = 0
            /\ ~isProcessing'
            /\ ticks' = ticks
       /\ (StopMonitoring /\ ~interval) =>
            UNCHANGED <<isProcessing, interval, timers, currentPoolIndex, swapProcessing, ticks,
                        chain>>
       /\ (~interval /\ ~interval') =>
            /\ BagCardinality(ticks') <= BagCardinality(ticks)
            /\ ~isProcessing'
            /\ timers' = 0]_vars

\* the monitor was stopped while a tick was suspended inside executeSwap()
StoppedWithTickInFlight ==
    /\ ~interval
    /\ timers = 0
    /\ ~isProcessing
    /\ \E r \in RunningTicks : InSwap(r)

\* C12: the step that stops a running monitor leaves every suspended tick, the
\* executors' flags and the cursor as they were, and a suspended tick can always take
\* its next step, whatever the monitor's handle and flag are.
StopDoesNotAbort ==
    [][/\ (interval /\ ~interval') =>
            /\ ticks' = ticks
            /\ swapProcessing' = swapProcessing
            /\ currentPoolIndex' = currentPoolIndex
       /\ ticks # EmptyBag => ENABLED (TickStep /\ Uncounted)]_vars

\* a tick that was in flight when the monitor was stopped went on to submit
\* transactions and completed its swap in the stopped monitor
StoppedTickCompleted ==
    /\ ~interval
    /\ timers = 0
    /\ last.op = "tickDone"
    /\ last.swap = "completed"
    /\ last.txs > 0

\* C13: a step in which an await of executeSwap() rejects ends that invocation: the
\* tick that ran it is gone with the transactions it had submitted until then, so it
\* submits none later; the tick ends in its catch block; and the executor's flag is
\* clear in the state the tick's catch block sees.
FailureAbortsAndPropagates ==
    [][last'.swap = "failed" =>
          /\ last'.op = "tickError"
          /\ ~swapProcessing'[last'.pool]
          /\ \E r \in RunningTicks :
                /\ InSwap(r)
                /\ r.pool = last'.pool
                /\ r.txs = last'.txs
                /\ ticks' = Remove(r)]_vars

\* a step of the protocol failed after the first transaction of the invocation, and
\* the error reached the tick
ErrorReachedTick ==
    /\ last.op = "tickError"
    /\ last.swap = "failed"
    /\ last.txs = 1
    /\ last.bal > threshold(last.pool)
    /\ SwapsInFlight(last.pool) = 0

\* number of transactions of one kind in a list of submitted transactions
Count(kind, sent) == Cardinality({i \in 1..Len(sent) : sent[i].kind = kind})

\* C14: an invocation of executeSwap(), running or ended, has submitted at most one
\* approval, at most one swap and at most one unwrap; only mints repeat.
NoRetryButMint ==
    \A sent \in {r.sent : r \in RunningTicks} \cup {last.sent} :
        /\ Count("approve", sent) <= 1
        /\ Count("swap", sent) <= 1
        /\ Count("unwrap", sent) <= 1
        /\ Count("mint", sent) <= MaxMints
        /\ \A i \in 1..Len(sent) : sent[i].kind \in {"mint", "approve", "swap", "unwrap"}

\* an invocation completed after it had minted more than once and had approved,
\* swapped and unwrapped once each
MintRepeated ==
    /\ last.swap = "completed"
    /\ Count("mint", last.sent) > 1
    /\ Count("approve", last.sent) = 1
    /\ Count("swap", last.sent) = 1
    /\ Count("unwrap", last.sent) = 1

Max(a, b) == IF a >= b THEN a ELSE b

\* C15: the fee fields of a submitted transaction are the larger of the configured
\* floor and the network's suggestion, so they are below neither; where the network
\* suggests nothing the floor is used.
FeeIsMaxOfFloorAndNetwork ==
    (calc.fn = "fees" /\ calc.done) =>
        /\ calc.maxFeePerGas =
              IF calc.suggestedMaxFee = Null
              THEN parseUnits(max_fee)
              ELSE Max(parseUnits(max_fee), calc.suggestedMaxFee)
        /\ calc.maxPriorityFeePerGas =
              IF calc.suggestedPriorityFee = Null
              THEN parseUnits(priority_fee)
              ELSE Max(parseUnits(priority_fee), calc.suggestedPriorityFee)
        /\ calc.maxFeePerGas >= parseUnits(max_fee)
        /\ calc.maxFeePerGas >= calc.suggestedMaxFee
        /\ calc.maxPriorityFeePerGas >= parseUnits(priority_fee)
        /\ calc.maxPriorityFeePerGas >= calc.suggestedPriorityFee

\* the network's max fee was above the floor and its priority fee below the floor
NetworkFeeAboveFloor ==
    /\ calc.fn = "fees"
    /\ calc.done
    /\ calc.suggestedMaxFee > parseUnits(max_fee)
    /\ calc.maxFeePerGas = calc.suggestedMaxFee
    /\ calc.suggestedPriorityFee \in 0..(parseUnits(priority_fee) - 1)
    /\ calc.maxPriorityFeePerGas = parseUnits(priority_fee)

\* the nonces of a list of submitted transactions are consecutive
Consecutive(sent) == \A i \in 1..Len(sent) : sent[i].nonce = sent[1].nonce + i - 1

\* C16: on a chain with no other writer, the nonce an invocation holds when it submits
\* is the signer's transaction count at that moment; the transaction it waits for is
\* the only one not yet confirmed, and at every other point all of them are
\* confirmed; the nonces of its submissions are consecutive, so no two are equal.
FreshNoncePerSubmission ==
    /\ \A r \in RunningTicks :
          /\ r.pc = "send" => r.nonce = chain.nonce
          /\ r.pc # "send" => r.nonce = NoNonce
          /\ Consecutive(r.sent)
          /\ r.sent # <<>> =>
                r.sent[Len(r.sent)].nonce = IF r.pc = "wait" THEN chain.nonce ELSE chain.nonce - 1
    /\ Consecutive(last.sent)
    /\ \A i, j \in 1..Len(last.sent) : i # j => last.sent[i].nonce # last.sent[j].nonce

\* an invocation completed after mints, an approval, the swap and the unwrap, each
\* submitted with the next nonce
FiveNoncesUsed ==
    /\ last.swap = "completed"
    /\ Len(last.sent) = MaxMints + 3
    /\ last.sent[1].nonce = 0
    /\ last.sent[Len(last.sent)].nonce = MaxMints + 2
    /\ chain.nonce = MaxMints + 3

\* the least integer not below a / b, for a >= 0 and b > 0
CeilDiv(a, b) == (a + b - 1) \div b

\* the signer's balance when tick r called mintTokens(), on a followed chain and until
\* the invocation swaps: the balance less the mints that are confirmed
StartingBalance(r) ==
    LET confirmed == IF r.pc = "wait" /\ r.stage = "mint" THEN r.mints - 1 ELSE r.mints
    IN  chain.balance - confirmed * batch_mint_amount(r.pool)

\* C17: on a chain where each mint adds exactly the batch size m, the mint loop that
\* started from a balance S below the target has left after exactly
\* ceil((target - S) / m) mints, and has not submitted more while it runs; from a
\* balance at or above the target it submits none.
MintLoopCount ==
    \A r \in RunningTicks :
        LET m == batch_mint_amount(r.pool)
            S == StartingBalance(r)
        IN  /\ r.pc = "allowance" =>
                  r.mints = IF S < r.target THEN CeilDiv(r.target - S, m) ELSE 0
            /\ (r.stage = "mint" /\ S < r.target) => r.mints <= CeilDiv(r.target - S, m)
            /\ (r.stage = "mint" /\ S >= r.target) => r.mints = 0

\* the mint loop has ended after mints whose last one overshot the target
MintLoopRoundedUp ==
    \E r \in At("allowance") :
        LET m == batch_mint_amount(r.pool)
            S == StartingBalance(r)
        IN  /\ S < r.target
            /\ (r.target - S) % m # 0
            /\ r.mints = (r.target - S) \div m + 1
            /\ chain.balance > r.target

\* C18: for a pool balance of B wei above the threshold, the withdrawal executeSwap()
\* uses is B * withdrawal_percentage / 100 (to the wei below).
WithdrawalIsExactShare ==
    (/\ calc.fn = "sizing"
     /\ calc.done
     /\ calc.wei > threshold(PoolAt(0))
     /\ calc.outcome = "sized")
        => calc.withdrawalAmountWei = (calc.wei * withdrawal_percentage) \div 100

\* C19: the swap input is floor(Rb * w / Rq) of the reserves read and the withdrawal,
\* the buffered amount is floor(110 / 100) of it, and the buffered amount is the mint
\* target, the approval amount and the swap's amountIn; for Rb = 1,000,000, Rq = 10
\* and w = 9 they are 900,000 and 990,000.
ReserveProportionalSizing ==
    /\ RequiredAmount(1000000, 9, 10) = 900000
    /\ WithBuffer(900000) = 990000
    /\ (calc.fn = "sizing" /\ calc.outcome = "sized") =>
          LET required == calc.requiredTokens
              buffered == calc.mintTarget
              product == calc.tokenBalance * calc.withdrawalAmountWei
          IN  /\ calc.wethBalance > 0
              /\ required * calc.wethBalance <= product
              /\ product < (required + 1) * calc.wethBalance
              /\ buffered * 100 <= required * 110
              /\ required * 110 < (buffered + 1) * 100
              /\ calc.approveAmount = buffered
              /\ calc.amountIn = buffered

\* a swap was sized where both divisions round down and the buffer adds to the amount
SizedWithRounding ==
    /\ calc.fn = "sizing"
    /\ calc.outcome = "sized"
    /\ (calc.tokenBalance * calc.withdrawalAmountWei) % calc.wethBalance # 0
    /\ (calc.requiredTokens * 110) % 100 # 0
    /\ calc.amountIn > calc.requiredTokens

\* C20: when the timer keeps firing and every tick ends, every configured pool is
\* selected by a tick again and again, whatever fails.
EveryPoolSelectedForever ==
    \A p \in PoolTypes : []<>(\E r \in RunningTicks : r.pool = p)

\* number of invocations whose getPoolBalance() has settled and whose caller has not resumed
SettledReads(b) ==
    BagCardinality([r \in {x \in BagToSet(b) : x.pc \in {"balanceDone", "swapBalanceDone"}}
                       |-> b[r]])

\* C21: the step in which a getPoolBalance() call settles, with a balance or with an
\* error, leaves the monitor's cursor, flag and timer, every executor's flag and the
\* signer's account as they were, and the invocation that awaits it has submitted
\* nothing in that step.
PoolBalanceIsPureRead ==
    [][SettledReads(ticks') > SettledReads(ticks) =>
          /\ UNCHANGED <<isProcessing, interval, timers, currentPoolIndex, swapProcessing,
                         chain>>
          /\ \E r \in At("balance") \cup At("swapBalance"), rec \in BagToSet(ticks') :
                /\ ticks' = Replace(r, rec)
                /\ rec.read \in PoolBalances \cup {ReadError}
                /\ rec.txs = r.txs
                /\ rec.sent = r.sent
                /\ rec.pool = r.pool]_vars

\* getPoolBalance() threw inside executeSwap(): the executor's flag is still set and the
\* monitor's cursor has not moved
PoolBalanceThrewInSwap ==
    \E r \in At("swapBalanceDone") :
        /\ r.read = ReadError
        /\ swapProcessing[r.pool]
        /\ isProcessing
        /\ r.pool = PoolAt(currentPoolIndex)
        /\ r.txs = 0

\* the swap transaction of the invocation that tick r runs has been confirmed
SwapConfirmed(r) == r.stage = "unwrap" \/ (r.stage = "swap" /\ r.pc = "wethBalance")

\* C22: an invocation of executeSwap() has reported success exactly once when it ends
\* with its swap transaction confirmed, and not at all when it ends without.
ReportedOncePerCompletedSwap ==
    [][last'.op # "none" =>
          \E r \in RunningTicks :
              /\ ticks' = Remove(r)
              /\ last'.reports = IF SwapConfirmed(r) THEN 1 ELSE 0]_vars

\* C23: for a pool balance of B wei, a tick calls executeSwap() exactly when B is
\* above the pool's threshold.
SwapIffAboveThreshold ==
    (calc.fn = "threshold" /\ calc.done) =>
        (calc.called <=> calc.wei > ThresholdEther * WeiPerEther)

\* the positions of the transactions of one kind in a list of submitted transactions
Positions(kind, sent) == {i \in 1..Len(sent) : sent[i].kind = kind}

\* C24: inside checkAndApproveToken() an approval is on its way exactly when the
\* allowance read is below the buffered amount; when checkAndApproveToken() has
\* returned, one approval was submitted if the allowance was below and none otherwise;
\* an approval carries the buffered amount, and when the swap is submitted the
\* approval is before it and confirmed.
ApprovalIffAllowanceBelow ==
    \A r \in RunningTicks :
        /\ (r.stage = "approve" /\ r.pc \in {"nonce", "send", "wait"}) =>
              /\ r.allowance # NoRead
              /\ r.allowance < r.target
              /\ Count("approve", r.sent) = IF r.pc = "wait" THEN 1 ELSE 0
        /\ r.pc = "fee" =>
              /\ r.allowance # NoRead
              /\ Count("approve", r.sent) = IF r.allowance < r.target THEN 1 ELSE 0
        /\ \A i \in Positions("approve", r.sent) :
              /\ r.sent[i].amount = r.target
              /\ r.stage = "approve" \/ r.sent[i].nonce < chain.nonce
              /\ \A j \in Positions("swap", r.sent) : i < j

\* checkAndApproveToken() returned without an approval because the allowance read was
\* equal to the amount
ApprovalSkippedAtEqual ==
    \E r \in At("fee") :
        /\ r.allowance = r.target
        /\ r.target > 0
        /\ Count("approve", r.sent) = 0
        /\ Count("mint", r.sent) > 0

\* place of a kind of transaction in the protocol
Rank(kind) ==
    CASE kind = "mint" -> 1
      [] kind = "approve" -> 2
      [] kind = "swap" -> 3
      [] OTHER -> 4

\* mints, then at most one approval, then at most one swap, then at most one unwrap,
\* and no unwrap without a swap
InProtocolOrder(sent) ==
    /\ \A i, j \in 1..Len(sent) : i < j =>
          /\ Rank(sent[i].kind) <= Rank(sent[j].kind)
          /\ sent[i].kind # "mint" => Rank(sent[i].kind) < Rank(sent[j].kind)
    /\ Count("unwrap", sent) = 1 => Count("swap", sent) = 1

\* the transactions of tick r that the chain has not confirmed
Outstanding(r) == {i \in 1..Len(r.sent) : r.sent[i].nonce >= chain.nonce}

\* C25: the transactions of an invocation, running or ended, are in protocol order; an
\* invocation that ran the protocol to its end submitted exactly one swap; an
\* invocation has an unconfirmed transaction only while it awaits that transaction's
\* receipt, and then it has one, the last it submitted.
SubmittedInOrderOneAtATime ==
    /\ \A r \in RunningTicks :
          /\ InProtocolOrder(r.sent)
          /\ Outstanding(r) = IF r.pc = "wait" THEN {Len(r.sent)} ELSE {}
          /\ r.pc = "wait" => r.sent # <<>>
    /\ InProtocolOrder(last.sent)
    /\ last.swap = "completed" => Count("swap", last.sent) = 1

\* the unwrap is awaited after a mint, the approval and the swap were each confirmed
UnwrapOutstandingAlone ==
    \E r \in At("wait") :
        /\ r.stage = "unwrap"
        /\ Len(r.sent) >= 4
        /\ Count("mint", r.sent) >= 1
        /\ Count("approve", r.sent) = 1
        /\ chain.nonce = Len(r.sent) - 1

\* C26: an invocation is in unwrapWETH() only with a positive acquiredWETH, and the
\* unwrap it submits carries that whole amount; an invocation that returned normally
\* after the swap submitted an unwrap exactly when the balance it read was positive;
\* and the profit it reported is the native balance read after the unwrap's receipt
\* less the one read before the unwrap was submitted.
UnwrapIffPositiveAndProfit ==
    /\ \A r \in RunningTicks :
          /\ r.stage = "unwrap" <=> r.weth # NoRead
          /\ r.stage = "unwrap" => r.weth > 0
          /\ \A i \in Positions("unwrap", r.sent) : r.sent[i].amount = r.weth
    /\ last.swap = "completed" =>
          /\ last.weth >= 0
          /\ Count("unwrap", last.sent) = IF last.weth > 0 THEN 1 ELSE 0
          /\ last.reports = Count("unwrap", last.sent)
    /\ last.reports = 1 =>
          /\ last.sent[Len(last.sent)].kind = "unwrap"
          /\ last.sent[Len(last.sent)].amount = last.weth
          /\ last.profit = last.after - last.before

\* the whole balance, more than one unit, was unwrapped and the reported profit is
\* negative
UnwrappedAtALoss ==
    /\ last.swap = "completed"
    /\ last.reports = 1
    /\ last.weth = MaxWeth
    /\ last.sent[Len(last.sent)].amount = MaxWeth
    /\ last.before = MaxEth
    /\ last.after = 0
    /\ last.profit = 0 - MaxEth

\* C27: a step that resumes mintTokens() after a read of the signer's balance goes on
\* to another mint when the balance read is below the target, however many mints were
\* submitted, and leaves the loop when it is not; so mintTokens() has returned only
\* with a last read at or above the target, with no mint at all when that was the
\* first read, and a tick that leaves the loop in any other way ends with an error.
MintLoopEndsAtTarget ==
    [][\A r \in At("mintBalance") :
          /\ \A rec \in BagToSet(ticks') :
                (rec # r /\ ticks' = Replace(r, rec)) =>
                    /\ rec.balance \in 0..MaxToken
                    /\ rec.pc = IF rec.balance < r.target THEN "nonce" ELSE "allowance"
                    /\ rec.mints = r.mints
                    /\ rec.sent = r.sent
                    /\ (r.mints = 0 /\ rec.balance >= r.target) => rec.sent = <<>>
          /\ ticks' = Remove(r) => (last'.op = "tickError" /\ last'.swap = "failed")
          /\ r.mints <= MaxMints
          /\ r.mints = Count("mint", r.sent)]_vars

\* the loop has submitted as many mints as the model follows and the balance read
\* after the last of them is still below the target
StillMintingAtBound ==
    \E r \in At("nonce") :
        /\ r.stage = "mint"
        /\ r.mints = MaxMints - 1
        /\ r.mints > 0
        /\ r.balance # NoRead
        /\ r.balance < r.target

\* C28: in a monitor that is never stopped, while a tick is in flight it is the only
\* one, its pool is the one at the cursor, the guard of processNextPool() drops every
\* call, and no step moves the cursor or starts a tick for another pool unless it
\* ends the tick in flight.
InFlightTickBlocksOthers ==
    [][ticks # EmptyBag =>
          /\ BagCardinality(ticks) = 1
          /\ TickDropped
          /\ \A r \in RunningTicks : r.pool = PoolAt(currentPoolIndex)
          /\ ticks' # EmptyBag =>
                /\ currentPoolIndex' = currentPoolIndex
                /\ BagCardinality(ticks') = 1
                /\ \A r \in RunningTicks, rec \in BagToSet(ticks') : rec.pool = r.pool
                /\ last'.op = "none"]_vars

\* the tick for the second pool sits in a mint loop whose balance stays below the
\* target, with the timer armed
StuckInMintLoop ==
    \E r \in At("mintBalance") :
        /\ r.pool = PoolAt(1)
        /\ r.mints = MaxMints
        /\ r.balance # NoRead
        /\ r.balance < r.target
        /\ interval
        /\ timers = 1
        /\ isProcessing
        /\ currentPoolIndex = 1

\* C29: the pool named in the error log of a failed tick is the pool that tick
\* selected.
LoggedPoolIsTickPool ==
    last.op = "tickError" => last.logged = last.pool

\* C30: at most one executor has its flag set, and at most one invocation awaits the
\* receipt of a transaction of the signer.
OneExecutorOnSigner ==
    /\ Cardinality({p \in PoolTypes : swapProcessing[p]}) <= 1
    /\ BagCardinality([r \in At("wait") |-> ticks[r]]) <= 1

\* C31: a tick that starts selects the pool the tick started before it selected, or
\* the one after that pool in process order.
NoPoolSkipped ==
    [][(BagCardinality(ticks') > BagCardinality(ticks) /\ selected # NoSelection) =>
          selected' \in {selected, NextIndex(selected)}]_vars

\* C32: an invocation of executeSwap() that goes on after sizing has read a positive
\* quote-asset reserve; one that read a zero reserve ended in that step with an error
\* that reached the tick, with no transaction submitted and its executor's flag clear.
DrainedPoolFailsCleanly ==
    /\ \A r \in RunningTicks : r.reserve # NoRead => r.reserve > 0
    /\ last.reserve # NoRead =>
          /\ last.reserve = 0
          /\ last.op = "tickError"
          /\ last.swap = "failed"
          /\ last.txs = 0
          /\ last.sent = <<>>
          /\ last.reports = 0
          /\ ~swapProcessing[last.pool]

\* the pool was above its threshold when executeSwap() read its balance and had no
\* quote-asset reserve when the sizing read it
DrainedBetweenReads ==
    /\ last.reserve = 0
    /\ last.bal > threshold(last.pool)
    /\ last.swap = "failed"
    /\ SwapsInFlight(last.pool) = 0

SwapSubmittedFunded ==
    \A r \in At("wait") :
        r.stage = "swap" =>
            LET swap == r.sent[Len(r.sent)]
                amountIn == swap.amount
            IN  /\ swap.kind = "swap"
                /\ amountIn = r.target
                /\ r.balance # NoRead /\ r.balance >= amountIn
                /\ r.allowance # NoRead
                /\ \/ r.allowance >= amountIn
                   \/ \E i \in 1..Len(r.sent) :
                          r.sent[i].kind = "approve" /\ r.sent[i].amount = amountIn

\* a swap is awaited that needed both a mint and an approval first
SwapAfterMintAndApproval ==
    \E r \in At("wait") :
        /\ r.stage = "swap"
        /\ r.target > 0
        /\ r.mints > 0
        /\ r.allowance < r.target
        /\ r.balance > r.target

====
